---- MODULE Spec2Model ----
(***************************************************************************)
(* Volunteer-to-event matching application.                                *)
(*   - matching API  (src/unnamed/part_000, lines 1-112): the routes       *)
(*     GET /volunteer/:id (ranking) and POST /assign over the store;       *)
(*   - seed script   (src/unnamed/part_000, lines 113-265);                *)
(*   - event management page (src/src/pages/event_manage.tsx).             *)
(* The store's tables are sequences of rows in insertion order.  Every     *)
(* awaited store call is one step of its handler, so that the requests of  *)
(* different clients interleave at the awaits as they do on the event      *)
(* loop.                                                                   *)
(***************************************************************************)
EXTENDS Integers, Sequences, FiniteSets, TLC

VARIABLES
  states,           \* table States            (rows [stateCode, stateName])
  userCredentials,  \* table UserCredentials   (rows [userId, password])
  userProfile,      \* table UserProfile
  eventDetails,     \* table EventDetails
  assignment,       \* table Assignment        (rows [id, volunteerId, eventId])
  notice,           \* table Notice
  bus,              \* what bus.emit has published: <<[channel, payload]>>
  assignReq,        \* the POST /assign requests, each with its position and locals
  rankReq,          \* the GET /volunteer/:id request
  scoreOf,          \* the scoring function of services/matching.js
  seed,             \* the seed script's process
  events,           \* EventManage: useState events
  selectedId,       \* EventManage: useState selectedId (0 is null)
  form,             \* EventManage: useState form
  mode,             \* EventManage: useState mode
  loading,          \* EventManage: useState loading
  saving,           \* EventManage: useState saving
  error,            \* EventManage: useState error ("null" is null)
  fetchOp,          \* the fetchEvents() call of the mount effect
  op,               \* the createEvent / updateEvent / deleteEvent call in flight
  srvEvents,        \* the events resource behind /api/events
  srvNextId         \* the id the events resource gives the next created event

storeVars == <<states, userCredentials, userProfile, eventDetails, assignment, notice>>
uiVars == <<events, selectedId, form, mode, loading, saving, error, fetchOp, op,
            srvEvents, srvNextId>>
vars == <<states, userCredentials, userProfile, eventDetails, assignment, notice,
          bus, assignReq, rankReq, scoreOf, seed, uiVars>>

-----------------------------------------------------------------------------
(* Bounds *)

\* number of POST /assign requests in flight together
NReq == 2

Reqs == 1..NReq

-----------------------------------------------------------------------------
(* Values *)

\* a field absent from the request body, or an absent query parameter
Undefined == "undefined"
\* findUnique's "no row": null is the empty sequence, a found row is <<row>>
Null == <<>>

\* JavaScript truthiness of a body field (a string, or undefined)
Falsy(x) == x \in {Undefined, ""}

\* Array.prototype.filter on a sequence
Filter(s, Keep(_)) == SelectSeq(s, Keep)

Range(s) == {s[i] : i \in DOMAIN s}

\* new Date("YYYY-MM-DD"): UTC midnight of that day. A date string is <<y, m, d>>.
NewDate(s) == [y |-> s[1], mo |-> s[2], d |-> s[3], h |-> 0, mi |-> 0, sec |-> 0, ms |-> 0]
\* Date.prototype.toISOString: "YYYY-MM-DDTHH:mm:ss.sssZ", as its fields
ToISOString(dt) == <<dt.y, dt.mo, dt.d, dt.h, dt.mi, dt.sec, dt.ms>>
\* .slice(0, 10) of an ISO string: the "YYYY-MM-DD" part
IsoDay(iso) == SubSeq(iso, 1, 3)

-----------------------------------------------------------------------------
(* Demo data (server/demo_data/volunteer_events.data.js) *)

demoVols ==
  << [id |-> "v1", name |-> "Ana", location |-> "Houston", skills |-> <<"Teamwork", "Lifting">>],
     [id |-> "v2", name |-> "Ben", location |-> "Austin",  skills |-> <<"First Aid">>] >>

demoEvents ==
  << [id |-> "e1", name |-> "Food Drive", location |-> "Houston",
      requiredSkills |-> <<"Lifting">>, urgency |-> "High", date |-> <<2025, 11, 2>>],
     [id |-> "e2", name |-> "Clinic", location |-> "Austin",
      requiredSkills |-> <<"First Aid">>, urgency |-> "Medium", date |-> <<2025, 10, 5>>],
     [id |-> "e3", name |-> "Park Cleanup", location |-> "Houston",
      requiredSkills |-> <<"Teamwork">>, urgency |-> "Low", date |-> <<2025, 12, 1>>] >>

\* the row seedDemo writes for a demo volunteer (update and create carry the same fields)
ProfileData(v) ==
  [fullName |-> v.name, address1 |-> v.location, city |-> v.location, state |-> "TX",
   zipCode |-> "00000", skills |-> v.skills, preferences |-> "null", availability |-> <<>>]
ProfileRow(v) == [userId |-> v.id] @@ ProfileData(v)
CredentialsRow(v) == [userId |-> v.id, password |-> "demo"]

\* the row seedDemo writes for a demo event
EventData(e) ==
  [eventName |-> e.name, description |-> e.name, location |-> e.location,
   requiredSkills |-> e.requiredSkills, urgency |-> e.urgency, eventDate |-> NewDate(e.date)]
EventRow(e) == [id |-> e.id] @@ EventData(e)

SeededProfiles == [i \in DOMAIN demoVols |-> ProfileRow(demoVols[i])]
SeededCredentials == [i \in DOMAIN demoVols |-> CredentialsRow(demoVols[i])]
SeededEvents == [i \in DOMAIN demoEvents |-> EventRow(demoEvents[i])]

-----------------------------------------------------------------------------
(* Store queries *)

\* prisma.userProfile.findUnique({ where: { userId } })
FindProfile(userId) ==
  LET hit == Filter(userProfile, LAMBDA p : p.userId = userId)
  IN IF hit = <<>> THEN Null ELSE <<Head(hit)>>

\* prisma.eventDetails.findUnique({ where: { id } })
FindEvent(id) ==
  LET hit == Filter(eventDetails, LAMBDA e : e.id = id)
  IN IF hit = <<>> THEN Null ELSE <<Head(hit)>>

-----------------------------------------------------------------------------
(* POST /api/match/assign *)

VolunteerIdInputs == {Undefined, "", "v1", "v2", "vX"}
EventIdInputs == {Undefined, "", "e1", "eX"}

IdleAssign ==
  [pc |-> "idle", volunteerId |-> Undefined, eventId |-> Undefined,
   vDone |-> FALSE, eDone |-> FALSE, v |-> Null, e |-> Null,
   assignment |-> 0, notice |-> 0, failedAt |-> "none", res |-> <<>>]

\* res.status(s).json(body)
Respond(r, st, body) == Append(r.res, [status |-> st, body |-> body])

\* lines 80-81 with the profile lookup made before the check of the body
AssignStartReadsFirst(r, volunteerId, eventId) ==
  /\ assignReq[r].pc = "idle"
  /\ LET q == [assignReq[r] EXCEPT !.volunteerId = volunteerId, !.eventId = eventId,
                                   !.vDone = TRUE, !.v = FindProfile(volunteerId)]
     IN assignReq' = [assignReq EXCEPT ![r] =
          IF Falsy(volunteerId) \/ Falsy(eventId)
          THEN [q EXCEPT !.pc = "done",
                         !.res = Respond(q, 400, "volunteerId and eventId required")]
          ELSE [q EXCEPT !.pc = "lookup"]]
  /\ UNCHANGED <<storeVars, bus, rankReq, scoreOf, seed, uiVars>>

\* lines 80-81 with "&&" for "||": 400 only when both ids are falsy
AssignStartBothMissing(r, volunteerId, eventId) ==
  /\ assignReq[r].pc = "idle"
  /\ LET q == [assignReq[r] EXCEPT !.volunteerId = volunteerId, !.eventId = eventId]
     IN assignReq' = [assignReq EXCEPT ![r] =
          IF Falsy(volunteerId) /\ Falsy(eventId)
          THEN [q EXCEPT !.pc = "done",
                         !.res = Respond(q, 400, "volunteerId and eventId required")]
          ELSE [q EXCEPT !.pc = "lookup"]]
  /\ UNCHANGED <<storeVars, bus, rankReq, scoreOf, seed, uiVars>>

\* lines 80-81: destructure the body, 400 when either id is falsy; otherwise both
\* lookups are issued (Promise.all)
AssignStart(r, volunteerId, eventId) ==
  /\ assignReq[r].pc = "idle"
  /\ LET q == [assignReq[r] EXCEPT !.volunteerId = volunteerId, !.eventId = eventId]
     IN assignReq' = [assignReq EXCEPT ![r] =
          IF Falsy(volunteerId) \/ Falsy(eventId)
          THEN [q EXCEPT !.pc = "done",
                         !.res = Respond(q, 400, "volunteerId and eventId required")]
          ELSE [q EXCEPT !.pc = "lookup"]]
  /\ UNCHANGED <<storeVars, bus, rankReq, scoreOf, seed, uiVars>>

\* line 85: the profile lookup resolves
AssignFindVolunteer(r) ==
  /\ assignReq[r].pc = "lookup"
  /\ ~assignReq[r].vDone
  /\ assignReq' = [assignReq EXCEPT ![r].vDone = TRUE,
                                    ![r].v = FindProfile(assignReq[r].volunteerId)]
  /\ UNCHANGED <<storeVars, bus, rankReq, scoreOf, seed, uiVars>>

\* line 86: the event lookup resolves
AssignFindEvent(r) ==
  /\ assignReq[r].pc = "lookup"
  /\ ~assignReq[r].eDone
  /\ assignReq' = [assignReq EXCEPT ![r].eDone = TRUE,
                                    ![r].e = FindEvent(assignReq[r].eventId)]
  /\ UNCHANGED <<storeVars, bus, rankReq, scoreOf, seed, uiVars>>

\* a catch clause that answers nothing
AssignCatchSilent(q, step) == [q EXCEPT !.pc = "done", !.failedAt = step]

\* the catch clause, lines 106-108
AssignCatch(q, step) ==
  [q EXCEPT !.pc = "done", !.failedAt = step, !.res = Respond(q, 500, "assign_failed")]

\* lines 84-87 and 106-108: a lookup rejects, Promise.all rejects, the catch answers 500
AssignLookupFails(r) ==
  /\ assignReq[r].pc = "lookup"
  /\ ~assignReq[r].vDone \/ ~assignReq[r].eDone
  /\ assignReq' = [assignReq EXCEPT ![r] = AssignCatch(assignReq[r], "lookup")]
  /\ UNCHANGED <<storeVars, bus, rankReq, scoreOf, seed, uiVars>>

\* line 88 with "&&" for "||": 404 only when both rows are missing
AssignCheckBothNull(r) ==
  /\ assignReq[r].pc = "lookup"
  /\ assignReq[r].vDone /\ assignReq[r].eDone
  /\ LET q == assignReq[r]
     IN assignReq' = [assignReq EXCEPT ![r] =
          IF q.v = Null /\ q.e = Null
          THEN [q EXCEPT !.pc = "done", !.res = Respond(q, 404, "not found")]
          ELSE [q EXCEPT !.pc = "create"]]
  /\ UNCHANGED <<storeVars, bus, rankReq, scoreOf, seed, uiVars>>

\* line 88: both lookups have resolved; 404 when either is null, else the create is issued
AssignCheck(r) ==
  /\ assignReq[r].pc = "lookup"
  /\ assignReq[r].vDone /\ assignReq[r].eDone
  /\ LET q == assignReq[r]
     IN assignReq' = [assignReq EXCEPT ![r] =
          IF q.v = Null \/ q.e = Null
          THEN [q EXCEPT !.pc = "done", !.res = Respond(q, 404, "not found")]
          ELSE [q EXCEPT !.pc = "create"]]
  /\ UNCHANGED <<storeVars, bus, rankReq, scoreOf, seed, uiVars>>

\* prisma.assignment.create({ data: { volunteerId, eventId } }): a new row, new id
NewAssignment(q) ==
  [id |-> Len(assignment) + 1, volunteerId |-> q.volunteerId, eventId |-> q.eventId]

\* line 90: the store creates the Assignment row
AssignCreateAssignment(r) ==
  /\ assignReq[r].pc = "create"
  /\ LET row == NewAssignment(assignReq[r])
     IN /\ assignment' = Append(assignment, row)
        /\ assignReq' = [assignReq EXCEPT ![r].pc = "notice", ![r].assignment = row.id]
  /\ UNCHANGED <<states, userCredentials, userProfile, eventDetails, notice,
                 bus, rankReq, scoreOf, seed, uiVars>>

\* line 90 rejects: 500, nothing written
AssignCreateAssignmentFails(r) ==
  /\ assignReq[r].pc = "create"
  /\ assignReq' = [assignReq EXCEPT ![r] = AssignCatch(assignReq[r], "assignment")]
  /\ UNCHANGED <<storeVars, bus, rankReq, scoreOf, seed, uiVars>>

\* lines 93-95: the notice's data, from the event row read at line 86
NewNotice(q) ==
  LET e == q.e[1]
  IN [id |-> Len(notice) + 1, volunteerId |-> q.volunteerId,
      title |-> <<"Assigned: ", e.eventName>>,
      body |-> <<e.location, " \\u2022 ", ToISOString(e.eventDate)>>,
      type |-> "success"]

\* line 95: the store creates the Notice row
AssignCreateNotice(r) ==
  /\ assignReq[r].pc = "notice"
  /\ LET row == NewNotice(assignReq[r])
     IN /\ notice' = Append(notice, row)
        /\ assignReq' = [assignReq EXCEPT ![r].pc = "emit", ![r].notice = row.id]
  /\ UNCHANGED <<states, userCredentials, userProfile, eventDetails, assignment,
                 bus, rankReq, scoreOf, seed, uiVars>>

\* line 95 rejects: 500; the Assignment row of line 90 stays
AssignCreateNoticeFails(r) ==
  /\ assignReq[r].pc = "notice"
  /\ assignReq' = [assignReq EXCEPT ![r] = AssignCatch(assignReq[r], "notice")]
  /\ UNCHANGED <<storeVars, bus, rankReq, scoreOf, seed, uiVars>>

\* bus.emit on a channel keyed by the event instead of the volunteer
EmitOnEventChannel(q) ==
  LET n == CHOOSE x \in Range(notice) : x.id = q.notice
  IN Append(bus, [channel |-> <<"notice:", q.eventId>>,
                  payload |-> [id |-> n.id, volunteerId |-> n.volunteerId,
                               title |-> n.title, body |-> n.body, type |-> n.type]])

\* lines 96-103: bus.emit(`notice:${volunteerId}`, payload)
Emit(q) ==
  LET n == CHOOSE x \in Range(notice) : x.id = q.notice
  IN Append(bus, [channel |-> <<"notice:", q.volunteerId>>,
                  payload |-> [id |-> n.id, volunteerId |-> n.volunteerId,
                               title |-> n.title, body |-> n.body, type |-> n.type]])

\* line 105: the 200 body
AssignOk(q) ==
  [ok |-> TRUE,
   assignment |-> [id |-> q.assignment, volunteerId |-> q.volunteerId, eventId |-> q.eventId]]

\* lines 96-105: publish on the volunteer's channel, then answer 200
AssignEmitRespond(r) ==
  /\ assignReq[r].pc = "emit"
  /\ bus' = Emit(assignReq[r])
  /\ LET q == assignReq[r]
     IN assignReq' = [assignReq EXCEPT ![r] =
          [q EXCEPT !.pc = "done", !.res = Respond(q, 200, AssignOk(q))]]
  /\ UNCHANGED <<storeVars, rankReq, scoreOf, seed, uiVars>>

\* DELETE /api/events/:id of the events resource: the row leaves the table
EventsDelete(id) ==
  /\ FindEvent(id) # Null
  /\ eventDetails' = Filter(eventDetails, LAMBDA e : e.id # id)
  /\ UNCHANGED <<states, userCredentials, userProfile, assignment, notice,
                 bus, assignReq, rankReq, scoreOf, seed, uiVars>>

-----------------------------------------------------------------------------
(* GET /api/match/volunteer/:id *)

\* lines 9-14: the volunteer as the UI sees it
toVolunteerDTO(p) ==
  [id |-> p.userId, name |-> p.fullName, location |-> p.city, skills |-> p.skills]

\* lines 16-23: the event as the UI sees it, its date as "YYYY-MM-DD"
toEventDTO(e) ==
  [id |-> e.id, name |-> e.eventName, location |-> e.location,
   requiredSkills |-> e.requiredSkills, date |-> IsoDay(ToISOString(e.eventDate)),
   urgency |-> e.urgency]

\* score(vDTO, eDTO) of services/matching.js: some fixed function of the two
score(vDTO, eDTO) == scoreOf[<<vDTO.id, eDTO.id>>]

\* a JavaScript number: an integer or NaN
Num(n) == [nan |-> FALSE, val |-> n]
NaN == [nan |-> TRUE, val |-> 0]

DigitValue(c) ==
  CASE c = "0" -> 0 [] c = "1" -> 1 [] c = "2" -> 2 [] c = "3" -> 3 [] c = "4" -> 4
    [] c = "5" -> 5 [] c = "6" -> 6 [] c = "7" -> 7 [] c = "8" -> 8 [] c = "9" -> 9
IsDigit(c) == c \in {"0", "1", "2", "3", "4", "5", "6", "7", "8", "9"}

RECURSIVE DigitsValue(_)
DigitsValue(t) == IF t = <<>> THEN 0 ELSE 10 * DigitsValue(SubSeq(t, 1, Len(t) - 1)) + DigitValue(t[Len(t)])

\* Number(text) for a text of characters: "" is 0, an optionally signed run of
\* digits is its value, anything else is NaN
ToNumber(t) ==
  LET body == IF t # <<>> /\ t[1] \in {"-", "+"} THEN Tail(t) ELSE t
  IN IF t = <<>> THEN Num(0)
     ELSE IF body # <<>> /\ \A i \in DOMAIN body : IsDigit(body[i])
          THEN Num(IF t[1] = "-" THEN 0 - DigitsValue(body) ELSE DigitsValue(body))
          ELSE NaN

DefaultTopN == 9999

\* line 55: Number(req.query.topN ?? 9999)
TopNOf(query) == IF query.present THEN ToNumber(query.text) ELSE Num(DefaultTopN)

\* Array.prototype.slice(0, end): NaN counts as 0, a negative end counts from the back
Slice0(s, end) ==
  LET k == IF end.nan THEN 0
           ELSE IF end.val < 0 THEN (IF Len(s) + end.val < 0 THEN 0 ELSE Len(s) + end.val)
           ELSE IF end.val > Len(s) THEN Len(s) ELSE end.val
  IN SubSeq(s, 1, k)

\* the comparator of line 69 with its operands swapped: ascending
CompareAscending(a, b) == a.score - b.score

\* line 69: (a, b) => b.score - a.score
Compare(a, b) == b.score - a.score

\* Array.prototype.sort, which is stable: each element goes behind the elements the
\* comparator does not put after it
RECURSIVE Sort(_)
Sort(s) ==
  IF s = <<>> THEN <<>>
  ELSE LET rest == Sort(SubSeq(s, 1, Len(s) - 1))
           x == s[Len(s)]
           k == Cardinality({i \in DOMAIN rest : Compare(rest[i], x) <= 0})
       IN SubSeq(rest, 1, k) \o <<x>> \o SubSeq(rest, k + 1, Len(rest))

\* a filter that lets the score 0 through
KeepNonNegative(x) == x.score >= 0

\* line 68: (x) => x.score > 0
KeepPositive(x) == x.score > 0

\* lines 63-70: map, filter, sort, slice
Ranked(vDTO, rows, topN) ==
  LET scored == [i \in DOMAIN rows |->
                   [event |-> toEventDTO(rows[i]), score |-> score(vDTO, toEventDTO(rows[i]))]]
  IN Slice0(Sort(Filter(scored, KeepPositive)), topN)

\* the orders in which findMany() (no orderBy) can return a table's rows
Orders(table) ==
  LET n == Len(table)
      perms == {f \in [1..n -> 1..n] : \A i, j \in 1..n : f[i] = f[j] => i = j}
  IN {[i \in 1..n |-> table[f[i]]] : f \in perms}

RankIdInputs == {"v1", "vX"}
TopNInputs ==
  {[present |-> FALSE, text |-> <<>>]} \cup
  {[present |-> TRUE, text |-> t] :
     t \in {<<"0">>, <<"1">>, <<"2">>, <<"1", "0">>, <<"-", "1">>, <<"a">>, <<>>}}

IdleRank ==
  [pc |-> "idle", id |-> Undefined, query |-> [present |-> FALSE, text |-> <<>>],
   topN |-> NaN, v |-> Null, failedAt |-> "none", res |-> <<>>]

\* a catch clause that answers nothing
RankCatchSilent(q, step) == [q EXCEPT !.pc = "done", !.failedAt = step]

\* the catch clause, lines 73-75
RankCatch(q, step) ==
  [q EXCEPT !.pc = "done", !.failedAt = step,
            !.res = Respond(q, 500, [error |-> "rank_failed"])]

\* lines 54-57: the id of the path, topN of the query; the profile lookup is issued
RankStart(id, query) ==
  /\ rankReq.pc = "idle"
  /\ rankReq' = [rankReq EXCEPT !.pc = "findUnique", !.id = id, !.query = query,
                                !.topN = TopNOf(query)]
  /\ UNCHANGED <<storeVars, bus, assignReq, scoreOf, seed, uiVars>>

\* lines 57-60: the lookup resolves; 404 when there is no such profile, else
\* findMany is issued
RankFindVolunteer ==
  /\ rankReq.pc = "findUnique"
  /\ LET v == FindProfile(rankReq.id)
     IN rankReq' =
          IF v = Null
          THEN [rankReq EXCEPT !.pc = "done",
                               !.res = Respond(rankReq, 404, [error |-> "volunteer not found"])]
          ELSE [rankReq EXCEPT !.pc = "findMany", !.v = v]
  /\ UNCHANGED <<storeVars, bus, assignReq, scoreOf, seed, uiVars>>

\* line 57 rejects
RankFindVolunteerFails ==
  /\ rankReq.pc = "findUnique"
  /\ rankReq' = RankCatch(rankReq, "findUnique")
  /\ UNCHANGED <<storeVars, bus, assignReq, scoreOf, seed, uiVars>>

\* lines 62-72: the events arrive in some order; rank them and answer 200
RankFindMany ==
  /\ rankReq.pc = "findMany"
  /\ \E rows \in Orders(eventDetails) :
       rankReq' = [rankReq EXCEPT
                     !.pc = "done",
                     !.res = Respond(rankReq, 200,
                                     Ranked(toVolunteerDTO(rankReq.v[1]), rows, rankReq.topN))]
  /\ UNCHANGED <<storeVars, bus, assignReq, scoreOf, seed, uiVars>>

\* line 62 rejects
RankFindManyFails ==
  /\ rankReq.pc = "findMany"
  /\ rankReq' = RankCatch(rankReq, "findMany")
  /\ UNCHANGED <<storeVars, bus, assignReq, scoreOf, seed, uiVars>>

\* the largest score the scoring function takes in the model
MaxScore == 2
ScoreValues == (0 - 1)..MaxScore

\* the tables that hold some of the rows of `table`, in its order
SubTables(table) ==
  {Filter(table, LAMBDA row : row \in keep) : keep \in SUBSET Range(table)}

-----------------------------------------------------------------------------
(* Seed script *)

\* lines 186-237
usStates ==
  << [stateCode |-> "AL", stateName |-> "Alabama"],
     [stateCode |-> "AK", stateName |-> "Alaska"],
     [stateCode |-> "AZ", stateName |-> "Arizona"],
     [stateCode |-> "AR", stateName |-> "Arkansas"],
     [stateCode |-> "CA", stateName |-> "California"],
     [stateCode |-> "CO", stateName |-> "Colorado"],
     [stateCode |-> "CT", stateName |-> "Connecticut"],
     [stateCode |-> "DE", stateName |-> "Delaware"],
     [stateCode |-> "FL", stateName |-> "Florida"],
     [stateCode |-> "GA", stateName |-> "Georgia"],
     [stateCode |-> "HI", stateName |-> "Hawaii"],
     [stateCode |-> "ID", stateName |-> "Idaho"],
     [stateCode |-> "IL", stateName |-> "Illinois"],
     [stateCode |-> "IN", stateName |-> "Indiana"],
     [stateCode |-> "IA", stateName |-> "Iowa"],
     [stateCode |-> "KS", stateName |-> "Kansas"],
     [stateCode |-> "KY", stateName |-> "Kentucky"],
     [stateCode |-> "LA", stateName |-> "Louisiana"],
     [stateCode |-> "ME", stateName |-> "Maine"],
     [stateCode |-> "MD", stateName |-> "Maryland"],
     [stateCode |-> "MA", stateName |-> "Massachusetts"],
     [stateCode |-> "MI", stateName |-> "Michigan"],
     [stateCode |-> "MN", stateName |-> "Minnesota"],
     [stateCode |-> "MS", stateName |-> "Mississippi"],
     [stateCode |-> "MO", stateName |-> "Missouri"],
     [stateCode |-> "MT", stateName |-> "Montana"],
     [stateCode |-> "NE", stateName |-> "Nebraska"],
     [stateCode |-> "NV", stateName |-> "Nevada"],
     [stateCode |-> "NH", stateName |-> "New Hampshire"],
     [stateCode |-> "NJ", stateName |-> "New Jersey"],
     [stateCode |-> "NM", stateName |-> "New Mexico"],
     [stateCode |-> "NY", stateName |-> "New York"],
     [stateCode |-> "NC", stateName |-> "North Carolina"],
     [stateCode |-> "ND", stateName |-> "North Dakota"],
     [stateCode |-> "OH", stateName |-> "Ohio"],
     [stateCode |-> "OK", stateName |-> "Oklahoma"],
     [stateCode |-> "OR", stateName |-> "Oregon"],
     [stateCode |-> "PA", stateName |-> "Pennsylvania"],
     [stateCode |-> "RI", stateName |-> "Rhode Island"],
     [stateCode |-> "SC", stateName |-> "South Carolina"],
     [stateCode |-> "SD", stateName |-> "South Dakota"],
     [stateCode |-> "TN", stateName |-> "Tennessee"],
     [stateCode |-> "TX", stateName |-> "Texas"],
     [stateCode |-> "UT", stateName |-> "Utah"],
     [stateCode |-> "VT", stateName |-> "Vermont"],
     [stateCode |-> "VA", stateName |-> "Virginia"],
     [stateCode |-> "WA", stateName |-> "Washington"],
     [stateCode |-> "WV", stateName |-> "West Virginia"],
     [stateCode |-> "WI", stateName |-> "Wisconsin"],
     [stateCode |-> "WY", stateName |-> "Wyoming"] >>

\* the most times the seed script is started
MaxSeedRuns == 2

\* upsert({ where, update, create }): the row the key matches is updated, and a
\* row is created when there is none
Upsert(table, Match(_), Update(_), created) ==
  IF \E i \in DOMAIN table : Match(table[i])
  THEN [i \in DOMAIN table |-> IF Match(table[i]) THEN Update(table[i]) ELSE table[i]]
  ELSE Append(table, created)

\* lines 243-247: update {} changes nothing
UpsertState(table, st) ==
  Upsert(table, LAMBDA row : row.stateCode = st.stateCode, LAMBDA row : row, st)

\* lines 122-129: update {} changes nothing
UpsertCredentials(table, v) ==
  Upsert(table, LAMBDA row : row.userId = v.id, LAMBDA row : row, CredentialsRow(v))

\* a create in place of the upsert
CreateProfile(table, v) == Append(table, ProfileRow(v))

\* lines 131-154
UpsertProfile(table, v) ==
  Upsert(table, LAMBDA row : row.userId = v.id,
         LAMBDA row : [userId |-> row.userId] @@ ProfileData(v), ProfileRow(v))

\* lines 160-179
UpsertEvent(table, e) ==
  Upsert(table, LAMBDA row : row.id = e.id,
         LAMBDA row : [id |-> row.id] @@ EventData(e), EventRow(e))

\* seed.first is the tables as the first completed run left them (<<>> before it)
IdleSeed == [pc |-> "idle", i |-> 0, started |-> 0, completed |-> 0, first |-> <<>>]
Tables == <<states, userCredentials, userProfile, eventDetails>>

\* lines 253-255: main() starts with seedStates
SeedStart ==
  /\ seed.pc = "idle"
  /\ seed.started < MaxSeedRuns
  /\ seed' = [seed EXCEPT !.pc = "states", !.i = 1, !.started = @ + 1]
  /\ UNCHANGED <<storeVars, bus, assignReq, rankReq, scoreOf, uiVars>>

\* lines 242-248: one upsert of the loop; after the last, seedDemo's first loop
SeedState ==
  /\ seed.pc = "states"
  /\ states' = UpsertState(states, usStates[seed.i])
  /\ seed' = IF seed.i < Len(usStates) THEN [seed EXCEPT !.i = @ + 1]
             ELSE [seed EXCEPT !.pc = "vols", !.i = 1]
  /\ UNCHANGED <<userCredentials, userProfile, eventDetails, assignment, notice,
                 bus, assignReq, rankReq, scoreOf, uiVars>>

\* lines 120-156: one volunteer's transaction, credentials then profile
SeedVolunteer ==
  /\ seed.pc = "vols"
  /\ userCredentials' = UpsertCredentials(userCredentials, demoVols[seed.i])
  /\ userProfile' = UpsertProfile(userProfile, demoVols[seed.i])
  /\ seed' = IF seed.i < Len(demoVols) THEN [seed EXCEPT !.i = @ + 1]
             ELSE [seed EXCEPT !.pc = "events", !.i = 1]
  /\ UNCHANGED <<states, eventDetails, assignment, notice,
                 bus, assignReq, rankReq, scoreOf, uiVars>>

\* lines 159-183: one event's upsert; after the last the run is complete
SeedEvent ==
  /\ seed.pc = "events"
  /\ eventDetails' = UpsertEvent(eventDetails, demoEvents[seed.i])
  /\ UNCHANGED <<states, userCredentials, userProfile, assignment, notice,
                 bus, assignReq, rankReq, scoreOf, uiVars>>
  /\ seed' = IF seed.i < Len(demoEvents) THEN [seed EXCEPT !.i = @ + 1]
             ELSE [seed EXCEPT !.pc = "idle", !.i = 0, !.completed = @ + 1,
                               !.first = IF seed.completed = 0 THEN Tables' ELSE @]

\* lines 257-259: a store call of the run rejects (a transaction rolls back whole),
\* main() logs it and the process exits
SeedFails ==
  /\ seed.pc \in {"states", "vols", "events"}
  /\ seed' = [seed EXCEPT !.pc = "idle", !.i = 0]
  /\ UNCHANGED <<storeVars, bus, assignReq, rankReq, scoreOf, uiVars>>

\* rows a store can hold before the seed runs: stale rows of demo ids, other rows
StaleProfiles ==
  << [userId |-> "v1"] @@ ProfileData([name |-> "Old Ana", location |-> "Dallas", skills |-> <<>>]),
     [userId |-> "v9"] @@ ProfileData([name |-> "Zed", location |-> "Waco", skills |-> <<"Logistics">>]) >>
StaleCredentials == << [userId |-> "v1", password |-> "secret"] >>
StaleEvents ==
  << [id |-> "e2"] @@ EventData([name |-> "Old Clinic", location |-> "Waco",
                                 requiredSkills |-> <<>>, urgency |-> "Low",
                                 date |-> <<2024, 1, 1>>]),
     [id |-> "e9"] @@ EventData([name |-> "Gala", location |-> "Waco",
                                 requiredSkills |-> <<"Teamwork">>, urgency |-> "High",
                                 date |-> <<2025, 6, 1>>]) >>
StaleStates == << [stateCode |-> "TX", stateName |-> "Tejas"] >>

-----------------------------------------------------------------------------
(* Event management page (src/src/pages/event_manage.tsx) *)

\* the most events the page creates
MaxCreates == 1

\* line 145: the length limit of the event name
MaxNameLen == 100

backendVars == <<states, userCredentials, userProfile, eventDetails, assignment, notice,
                 bus, assignReq, rankReq, scoreOf, seed>>

NullId == 0
NoError == "null"
Whitespace == {" ", "\t", "\n"}

\* String.prototype.trim on a text of characters
RECURSIVE TrimStart(_)
TrimStart(t) == IF t # <<>> /\ Head(t) \in Whitespace THEN TrimStart(Tail(t)) ELSE t
RECURSIVE TrimEnd(_)
TrimEnd(t) ==
  IF t # <<>> /\ t[Len(t)] \in Whitespace THEN TrimEnd(SubSeq(t, 1, Len(t) - 1)) ELSE t
Trim(t) == TrimEnd(TrimStart(t))

\* lines 90-97
emptyForm ==
  [name |-> <<>>, description |-> <<>>, location |-> <<>>, requiredSkills |-> <<>>,
   urgency |-> "Low", eventDate |-> <<>>]

\* what the user types or picks in the form's controls; the date control's value is
\* "" or a date "YYYY-MM-DD", here <<y, m, d>>
FieldInputs ==
  [name |-> {<<" ">>, <<" ", "a", " ">>},
   description |-> {<<" ">>, <<"d">>},
   location |-> {<<"l">>},
   eventDate |-> {<<>>, <<2025, 11, 2>>}]
SkillInputs == {"Teamwork"}

\* const { id, ...rest } = e
Rest(e) ==
  [name |-> e.name, description |-> e.description, location |-> e.location,
   requiredSkills |-> e.requiredSkills, urgency |-> e.urgency, eventDate |-> e.eventDate]
Item(id, f) == [id |-> id] @@ f

\* the events the resource holds when the page mounts: one, with a name of 101
\* characters
LongName == [i \in 1..(MaxNameLen + 1) |-> "x"]
StoredItems ==
  << Item(1, [name |-> LongName, description |-> <<"d">>, location |-> <<"l">>,
              requiredSkills |-> <<"Teamwork">>, urgency |-> "Low",
              eventDate |-> <<2025, 11, 2>>]) >>

NoFetch == [st |-> "none", reply |-> <<>>]
NoOp == [kind |-> "none", st |-> "none", id |-> NullId, payload |-> <<>>, reply |-> <<>>]

\* the page is not on screen
UIUnmounted ==
  /\ events = <<>> /\ selectedId = NullId /\ form = emptyForm /\ mode = "create"
  /\ loading = FALSE /\ saving = FALSE /\ error = NoError
  /\ fetchOp = NoFetch /\ op = NoOp /\ srvEvents = <<>> /\ srvNextId = 1

\* lines 87-111: the first render and its effect: loading, fetchEvents() under way
UIMounted ==
  /\ events = <<>> /\ selectedId = NullId /\ form = emptyForm /\ mode = "create"
  /\ loading = TRUE /\ saving = FALSE /\ error = NoError
  /\ fetchOp = [st |-> "sent", reply |-> <<>>] /\ op = NoOp
  /\ srvEvents = StoredItems /\ srvNextId = Len(StoredItems) + 1

\* GET /api/events answers with the events it holds
SrvList ==
  /\ fetchOp.st = "sent"
  /\ fetchOp' = [st |-> "replied", reply |-> <<[ok |-> TRUE, data |-> srvEvents]>>]
  /\ UNCHANGED <<events, selectedId, form, mode, loading, saving, error, op,
                 srvEvents, srvNextId, backendVars>>

\* GET /api/events fails, or answers a non-2xx status
SrvListFails ==
  /\ fetchOp.st = "sent"
  /\ fetchOp' = [st |-> "replied", reply |-> <<[ok |-> FALSE, data |-> <<>>]>>]
  /\ UNCHANGED <<events, selectedId, form, mode, loading, saving, error, op,
                 srvEvents, srvNextId, backendVars>>

\* lines 107-110: .then(setEvents) or .catch(setError), .finally(setLoading(false))
FetchDone ==
  /\ fetchOp.st = "replied"
  /\ IF fetchOp.reply[1].ok
     THEN events' = fetchOp.reply[1].data /\ error' = error
     ELSE events' = events /\ error' = "Failed to load events."
  /\ loading' = FALSE
  /\ fetchOp' = [st |-> "done", reply |-> <<>>]
  /\ UNCHANGED <<selectedId, form, mode, saving, op, srvEvents, srvNextId, backendVars>>

\* lines 113-114: an input's onChange
set(k, v) ==
  /\ fetchOp.st # "none"
  /\ form' = [form EXCEPT ![k] = v]
  /\ UNCHANGED <<events, selectedId, mode, loading, saving, error, fetchOp, op,
                 srvEvents, srvNextId, backendVars>>

\* lines 135-141: Array.prototype.includes
Includes(seq, x) == \E i \in DOMAIN seq : seq[i] = x
toggleSkill(sk) ==
  /\ fetchOp.st # "none"
  /\ form' = [form EXCEPT !.requiredSkills =
                IF Includes(@, sk) THEN Filter(@, LAMBDA x : x # sk) ELSE Append(@, sk)]
  /\ UNCHANGED <<events, selectedId, mode, loading, saving, error, fetchOp, op,
                 srvEvents, srvNextId, backendVars>>

\* lines 116-121, the "+ New" button
resetForm ==
  /\ fetchOp.st # "none"
  /\ form' = emptyForm
  /\ selectedId' = NullId
  /\ mode' = "create"
  /\ error' = NoError
  /\ UNCHANGED <<events, loading, saving, fetchOp, op, srvEvents, srvNextId, backendVars>>

\* lines 123-128
hydrateFormForEdit(e) ==
  /\ form' = Rest(e)
  /\ mode' = "edit"
  /\ selectedId' = e.id

\* lines 130-133, a click on an event of the list (the list is drawn when not loading)
handleSelectEvent(id) ==
  /\ ~loading
  /\ \E i \in DOMAIN events :
       /\ events[i].id = id
       /\ \A j \in 1..(i - 1) : events[j].id # id
       /\ hydrateFormForEdit(events[i])
  /\ UNCHANGED <<events, loading, saving, error, fetchOp, op, srvEvents, srvNextId,
                 backendVars>>

\* validate without the check of the required skills
validateWithoutSkills(f) ==
  IF Trim(f.name) = <<>> THEN "Event Name is required."
  ELSE IF Len(Trim(f.name)) > MaxNameLen THEN "Event Name must be <= 100 characters."
  ELSE IF Trim(f.description) = <<>> THEN "Event Description is required."
  ELSE IF Trim(f.location) = <<>> THEN "Location is required."
  ELSE IF f.urgency = "" THEN "Urgency is required."
  ELSE IF f.eventDate = <<>> THEN "Event Date is required."
  ELSE NoError

\* lines 143-154
validate(f) ==
  IF Trim(f.name) = <<>> THEN "Event Name is required."
  ELSE IF Len(Trim(f.name)) > MaxNameLen THEN "Event Name must be <= 100 characters."
  ELSE IF Trim(f.description) = <<>> THEN "Event Description is required."
  ELSE IF Trim(f.location) = <<>> THEN "Location is required."
  ELSE IF Len(f.requiredSkills) = 0 THEN "Select at least one Required Skill."
  ELSE IF f.urgency = "" THEN "Urgency is required."
  ELSE IF f.eventDate = <<>> THEN "Event Date is required."
  ELSE NoError

\* lines 163-167 and 172-176: the form with its three texts trimmed
Payload(f) ==
  [f EXCEPT !.name = Trim(f.name), !.description = Trim(f.description),
            !.location = Trim(f.location)]

\* lines 156-179, up to the await: the Create / Save button (disabled while saving)
handleSave ==
  /\ fetchOp.st # "none"
  /\ ~saving
  /\ IF validate(form) # NoError
     THEN /\ error' = validate(form)
          /\ UNCHANGED <<saving, op>>
     ELSE /\ error' = error
          /\ IF mode = "create"
             THEN /\ op' = [NoOp EXCEPT !.kind = "create", !.st = "sent",
                                        !.payload = Payload(form)]
                  /\ saving' = TRUE
             ELSE IF selectedId # NullId
             THEN /\ op' = [NoOp EXCEPT !.kind = "update", !.st = "sent", !.id = selectedId,
                                        !.payload = Payload(form)]
                  /\ saving' = TRUE
             ELSE UNCHANGED <<saving, op>>
  /\ UNCHANGED <<events, selectedId, form, mode, loading, fetchOp, srvEvents, srvNextId,
                 backendVars>>

\* POST /api/events: the resource stores the event under a new id and returns it
SrvCreate ==
  /\ op.kind = "create" /\ op.st = "sent"
  /\ srvNextId <= Len(StoredItems) + MaxCreates
  /\ LET created == Item(srvNextId, op.payload)
     IN /\ srvEvents' = Append(srvEvents, created)
        /\ op' = [op EXCEPT !.st = "replied", !.reply = <<[ok |-> TRUE, data |-> created]>>]
  /\ srvNextId' = srvNextId + 1
  /\ UNCHANGED <<events, selectedId, form, mode, loading, saving, error, fetchOp,
                 backendVars>>

\* PUT /api/events/:id: the resource replaces the event's fields and returns it
SrvUpdate ==
  /\ op.kind = "update" /\ op.st = "sent"
  /\ \E i \in DOMAIN srvEvents : srvEvents[i].id = op.id
  /\ LET updated == Item(op.id, op.payload)
     IN /\ srvEvents' = [i \in DOMAIN srvEvents |->
                           IF srvEvents[i].id = op.id THEN updated ELSE srvEvents[i]]
        /\ op' = [op EXCEPT !.st = "replied", !.reply = <<[ok |-> TRUE, data |-> updated]>>]
  /\ UNCHANGED <<events, selectedId, form, mode, loading, saving, error, fetchOp,
                 srvNextId, backendVars>>

\* DELETE /api/events/:id: the resource drops the event
SrvDelete ==
  /\ op.kind = "delete" /\ op.st = "sent"
  /\ \E i \in DOMAIN srvEvents : srvEvents[i].id = op.id
  /\ srvEvents' = Filter(srvEvents, LAMBDA e : e.id # op.id)
  /\ op' = [op EXCEPT !.st = "replied", !.reply = <<[ok |-> TRUE, data |-> <<>>]>>]
  /\ UNCHANGED <<events, selectedId, form, mode, loading, saving, error, fetchOp,
                 srvNextId, backendVars>>

\* the request fails, or is answered a non-2xx status
SrvFails ==
  /\ op.st = "sent"
  /\ op' = [op EXCEPT !.st = "replied", !.reply = <<[ok |-> FALSE, data |-> <<>>]>>]
  /\ UNCHANGED <<events, selectedId, form, mode, loading, saving, error, fetchOp,
                 srvEvents, srvNextId, backendVars>>

\* lines 162-184 after the await: the list and the form follow the answer, with the
\* mode and selectedId the handler read when it was called
SaveDone ==
  /\ op.kind \in {"create", "update"} /\ op.st = "replied"
  /\ IF op.reply[1].ok
     THEN LET e == op.reply[1].data
          IN /\ events' = IF op.kind = "create" THEN <<e>> \o events
                          ELSE [i \in DOMAIN events |->
                                  IF events[i].id = op.id THEN e ELSE events[i]]
             /\ hydrateFormForEdit(e)
             /\ error' = error
     ELSE /\ error' = "Failed to save event."
          /\ UNCHANGED <<events, form, mode, selectedId>>
  /\ saving' = FALSE
  /\ op' = NoOp
  /\ UNCHANGED <<loading, fetchOp, srvEvents, srvNextId, backendVars>>

\* lines 187-191, up to the await: the Delete button (drawn in edit mode, disabled
\* while saving)
handleDelete ==
  /\ mode = "edit"
  /\ ~saving
  /\ IF selectedId = NullId
     THEN UNCHANGED <<saving, op>>
     ELSE /\ saving' = TRUE
          /\ op' = [NoOp EXCEPT !.kind = "delete", !.st = "sent", !.id = selectedId]
  /\ UNCHANGED <<events, selectedId, form, mode, loading, error, fetchOp, srvEvents,
                 srvNextId, backendVars>>

\* lines 191-198 after the await
DeleteDone ==
  /\ op.kind = "delete" /\ op.st = "replied"
  /\ IF op.reply[1].ok
     THEN /\ events' = Filter(events, LAMBDA e : e.id # op.id)
          /\ form' = emptyForm
          /\ selectedId' = NullId
          /\ mode' = "create"
          /\ error' = NoError
     ELSE /\ error' = "Failed to delete event."
          /\ UNCHANGED <<events, form, mode, selectedId>>
  /\ saving' = FALSE
  /\ op' = NoOp
  /\ UNCHANGED <<loading, fetchOp, srvEvents, srvNextId, backendVars>>

-----------------------------------------------------------------------------
Init ==
  /\ states = <<>>
  /\ userCredentials = SeededCredentials
  /\ userProfile = SeededProfiles
  /\ eventDetails = SeededEvents
  /\ assignment = <<>>
  /\ notice = <<>>
  /\ bus = <<>>
  /\ assignReq = [r \in Reqs |-> IdleAssign]
  /\ rankReq = IdleRank
  /\ scoreOf = <<>>
  /\ seed = IdleSeed
  /\ UIUnmounted

Next ==
  \/ \E r \in Reqs, volunteerId \in VolunteerIdInputs, eventId \in EventIdInputs :
       AssignStart(r, volunteerId, eventId)
  \/ \E r \in Reqs : AssignFindVolunteer(r)
  \/ \E r \in Reqs : AssignFindEvent(r)
  \/ \E r \in Reqs : AssignLookupFails(r)
  \/ \E r \in Reqs : AssignCheck(r)
  \/ \E r \in Reqs : AssignCreateAssignment(r)
  \/ \E r \in Reqs : AssignCreateAssignmentFails(r)
  \/ \E r \in Reqs : AssignCreateNotice(r)
  \/ \E r \in Reqs : AssignCreateNoticeFails(r)
  \/ \E r \in Reqs : AssignEmitRespond(r)
  \/ \E id \in {"e1", "e2"} : EventsDelete(id)

Spec == Init /\ [][Next]_vars

\* the ranking route alone, for every scoring function and every set of stored events
InitRank ==
  /\ states = <<>>
  /\ userCredentials = SeededCredentials
  /\ userProfile = SeededProfiles
  /\ eventDetails \in SubTables(SeededEvents)
  /\ assignment = <<>>
  /\ notice = <<>>
  /\ bus = <<>>
  /\ assignReq = [r \in Reqs |-> IdleAssign]
  /\ rankReq = IdleRank
  /\ scoreOf \in [{"v1"} \X {SeededEvents[i].id : i \in DOMAIN SeededEvents} -> ScoreValues]
  /\ seed = IdleSeed
  /\ UIUnmounted

NextRank ==
  \/ \E id \in RankIdInputs, query \in TopNInputs : RankStart(id, query)
  \/ RankFindVolunteer
  \/ RankFindVolunteerFails
  \/ RankFindMany
  \/ RankFindManyFails

SpecRank == InitRank /\ [][NextRank]_vars

\* the seed script, run and re-run over every store of the stale rows
InitSeed ==
  /\ states \in SubTables(StaleStates)
  /\ userCredentials \in SubTables(StaleCredentials)
  /\ userProfile \in SubTables(StaleProfiles)
  /\ eventDetails \in SubTables(StaleEvents)
  /\ assignment = <<>>
  /\ notice = <<>>
  /\ bus = <<>>
  /\ assignReq = [r \in Reqs |-> IdleAssign]
  /\ rankReq = IdleRank
  /\ scoreOf = <<>>
  /\ seed = IdleSeed
  /\ UIUnmounted

NextSeed ==
  \/ SeedStart
  \/ SeedState
  \/ SeedVolunteer
  \/ SeedEvent
  \/ SeedFails

SpecSeed == InitSeed /\ [][NextSeed]_vars

\* the event management page and the events resource it talks to
InitUI ==
  /\ states = <<>>
  /\ userCredentials = <<>>
  /\ userProfile = <<>>
  /\ eventDetails = <<>>
  /\ assignment = <<>>
  /\ notice = <<>>
  /\ bus = <<>>
  /\ assignReq = [r \in Reqs |-> IdleAssign]
  /\ rankReq = IdleRank
  /\ scoreOf = <<>>
  /\ seed = IdleSeed
  /\ UIMounted

NextUI ==
  \/ SrvList
  \/ SrvListFails
  \/ FetchDone
  \/ \E k \in DOMAIN FieldInputs : \E v \in FieldInputs[k] : set(k, v)
  \/ \E sk \in SkillInputs : toggleSkill(sk)
  \/ resetForm
  \/ \E i \in DOMAIN events : handleSelectEvent(events[i].id)
  \/ handleSave
  \/ SrvCreate
  \/ SrvUpdate
  \/ SrvDelete
  \/ SrvFails
  \/ SaveDone
  \/ handleDelete
  \/ DeleteDone

SpecUI == InitUI /\ [][NextUI]_vars

-----------------------------------------------------------------------------
(* Properties of POST /assign *)

\* the status of the request's response, 0 while it has none
Status(q) == IF q.res = <<>> THEN 0 ELSE q.res[Len(q.res)].status
Succeeded == {r \in Reqs : Status(assignReq[r]) = 200}
AssignmentsOf(id) == {i \in DOMAIN assignment : assignment[i].id = id}
NoticesOf(id) == {i \in DOMAIN notice : notice[i].id = id}
PublishedOf(id) == {i \in DOMAIN bus : bus[i].payload.id = id}

\* C1: every assign call answered 200 has added exactly one Assignment row (its
\* volunteerId and eventId) and exactly one Notice row for that volunteer, and has
\* published exactly one event, on the channel of its volunteerId; the rows of
\* different calls are different rows also when the calls name the same pair, and
\* no row or publish exists that no call made, so n successful calls leave n rows.
C1_AssignAddsOneOfEach ==
  /\ Len(assignment) = Cardinality({r \in Reqs : assignReq[r].assignment # 0})
  /\ Len(notice) = Cardinality({r \in Reqs : assignReq[r].notice # 0})
  /\ Len(bus) = Cardinality(Succeeded)
  /\ \A r \in Succeeded :
       LET q == assignReq[r]
       IN /\ Len(q.res) = 1
          /\ Cardinality(AssignmentsOf(q.assignment)) = 1
          /\ \A i \in AssignmentsOf(q.assignment) :
               assignment[i].volunteerId = q.volunteerId /\ assignment[i].eventId = q.eventId
          /\ Cardinality(NoticesOf(q.notice)) = 1
          /\ \A i \in NoticesOf(q.notice) : notice[i].volunteerId = q.volunteerId
          /\ Cardinality(PublishedOf(q.notice)) = 1
          /\ \A i \in PublishedOf(q.notice) :
               /\ bus[i].channel = <<"notice:", q.volunteerId>>
               /\ bus[i].payload.volunteerId = q.volunteerId
  /\ \A r1, r2 \in Succeeded :
       r1 # r2 => /\ assignReq[r1].assignment # assignReq[r2].assignment
                  /\ assignReq[r1].notice # assignReq[r2].notice

\* two calls with the same (volunteerId, eventId) pair both succeeded
C1_Witness ==
  /\ Cardinality(Succeeded) >= 2
  /\ \A r1, r2 \in Succeeded :
       /\ assignReq[r1].volunteerId = assignReq[r2].volunteerId
       /\ assignReq[r1].eventId = assignReq[r2].eventId
  /\ Len(assignment) = Cardinality(Succeeded)

\* C4: whenever an Assignment row is created, the volunteer profile and the event
\* it references are in the store at that moment.
C4_BothExistAtCreation ==
  [][\A i \in DOMAIN assignment' :
       i > Len(assignment) =>
         /\ FindProfile(assignment'[i].volunteerId) # Null
         /\ FindEvent(assignment'[i].eventId) # Null]_vars

\* C5: an assign call whose body has no eventId is answered 400, once, at once.
C5_MissingEventIdIs400 ==
  \A r \in Reqs :
    LET q == assignReq[r]
    IN (q.pc # "idle" /\ q.eventId = Undefined) =>
         /\ q.pc = "done"
         /\ q.res = <<[status |-> 400, body |-> "volunteerId and eventId required"]>>

\* calls without eventId: one with an existing, one with an unknown or missing volunteerId
C5_Witness ==
  \E r1, r2 \in Reqs :
    /\ assignReq[r1].pc = "done" /\ assignReq[r1].eventId = Undefined
    /\ assignReq[r1].volunteerId = "v1"
    /\ assignReq[r2].pc = "done" /\ assignReq[r2].eventId = Undefined
    /\ assignReq[r2].volunteerId \in {"vX", Undefined}

StoredVolunteer(id) == \E i \in DOMAIN userProfile : userProfile[i].userId = id
\* the ids an event row ever has in this specification (no event is created in it)
EverStoredEvent(id) == \E i \in DOMAIN SeededEvents : SeededEvents[i].id = id

\* C6 as stated: a finished assign call with a present eventId that no stored event
\* has, or a volunteerId that no stored profile has, was answered 404.
C6_UnknownIs404 ==
  \A r \in Reqs :
    LET q == assignReq[r]
    IN (/\ q.pc = "done"
        /\ \/ ~Falsy(q.eventId) /\ ~EverStoredEvent(q.eventId)
           \/ ~Falsy(q.volunteerId) /\ ~StoredVolunteer(q.volunteerId))
       => Status(q) = 404

\* C6 amended: with both ids present and both lookups completed, a lookup of an id
\* that no row has yields null, and a call with a null lookup is answered 404 (once)
\* and goes no further; only calls that found both rows go on to the creates.
C6_UnknownIs404WhenBothPresent ==
  \A r \in Reqs :
    LET q == assignReq[r]
    IN /\ (q.vDone /\ ~StoredVolunteer(q.volunteerId)) => q.v = Null
       /\ (q.eDone /\ ~EverStoredEvent(q.eventId)) => q.e = Null
       /\ (q.pc = "done" /\ q.failedAt = "none" /\ ~Falsy(q.volunteerId) /\ ~Falsy(q.eventId)
             /\ (q.v = Null \/ q.e = Null))
          => (q.res = <<[status |-> 404, body |-> "not found"]>>
                /\ q.assignment = 0 /\ q.notice = 0)
       /\ q.pc \in {"create", "notice", "emit"} => (q.v # Null /\ q.e # Null)

\* answered calls: unknown event with a stored volunteer, unknown volunteer with a stored event
C6_Witness ==
  \E r1, r2 \in Reqs :
    /\ assignReq[r1].pc = "done" /\ assignReq[r1].failedAt = "none"
    /\ assignReq[r1].volunteerId = "v1" /\ assignReq[r1].eventId = "eX"
    /\ assignReq[r2].pc = "done" /\ assignReq[r2].failedAt = "none"
    /\ assignReq[r2].volunteerId = "vX" /\ assignReq[r2].eventId = "e1"
    /\ assignReq[r2].e # Null

\* C9: an assign call with a failed store operation is answered the generic 500,
\* once; when the failed operation is the Notice create, the Assignment row the call
\* created is in the store, the call has created no Notice row and published nothing
\* (every Notice row and every publish is another call's).
C9_StoreFailureIs500 ==
  \A r \in Reqs :
    LET q == assignReq[r]
    IN /\ q.failedAt # "none" =>
            (q.pc = "done" /\ q.res = <<[status |-> 500, body |-> "assign_failed"]>>)
       /\ q.failedAt \in {"lookup", "assignment"} => (q.assignment = 0 /\ q.notice = 0)
       /\ q.failedAt = "notice" =>
            /\ Cardinality(AssignmentsOf(q.assignment)) = 1
            /\ \A i \in AssignmentsOf(q.assignment) :
                 assignment[i].volunteerId = q.volunteerId /\ assignment[i].eventId = q.eventId
            /\ q.notice = 0
            /\ Len(notice) = Cardinality({x \in Reqs \ {r} : assignReq[x].notice # 0})
            /\ Len(bus) = Cardinality(Succeeded \ {r})

\* one call failed at the Notice create while another call went through
C9_Witness ==
  \E r1 \in Reqs, r2 \in Succeeded :
    /\ assignReq[r1].failedAt = "notice"
    /\ Len(assignment) = 2 /\ Len(notice) = 1 /\ Len(bus) = 1

-----------------------------------------------------------------------------
(* Properties of GET /volunteer/:id *)

RankAnswered200 == rankReq.pc = "done" /\ Status(rankReq) = 200
RankBody == rankReq.res[1].body
\* the stored events whose score for the request's volunteer is positive
PositiveEvents ==
  {i \in DOMAIN eventDetails :
     score(toVolunteerDTO(rankReq.v[1]), toEventDTO(eventDetails[i])) > 0}

\* C2: the list a ranking request returns has no entry with a score of 0 or less,
\* and each entry is a stored event with the score of that event for the volunteer.
C2_RankedArePositiveAndStored ==
  RankAnswered200 =>
    \A k \in DOMAIN RankBody :
      /\ RankBody[k].score > 0
      /\ \E i \in DOMAIN eventDetails :
           /\ RankBody[k].event = toEventDTO(eventDetails[i])
           /\ RankBody[k].score = score(toVolunteerDTO(rankReq.v[1]), RankBody[k].event)

\* a returned list with an entry, while the store also holds an event scored 0 or less
C2_Witness ==
  /\ RankAnswered200
  /\ Len(RankBody) >= 1
  /\ \E i \in DOMAIN eventDetails : i \notin PositiveEvents

C7_RankAlwaysOneResponse ==
  /\ rankReq.pc # "done" => rankReq.res = <<>>
  /\ rankReq.pc = "done" =>
       /\ Len(rankReq.res) = 1
       /\ Status(rankReq) \in {200, 404, 500}
       /\ (rankReq.failedAt = "none" /\ ~StoredVolunteer(rankReq.id))
            => rankReq.res = <<[status |-> 404, body |-> [error |-> "volunteer not found"]]>>
       /\ rankReq.failedAt # "none"
            => rankReq.res = <<[status |-> 500, body |-> [error |-> "rank_failed"]]>>
       /\ (rankReq.failedAt = "none" /\ StoredVolunteer(rankReq.id)) => Status(rankReq) = 200

\* a request for an unknown volunteer id has been answered
C7_Witness ==
  /\ rankReq.pc = "done" /\ rankReq.id = "vX" /\ rankReq.failedAt = "none"
  /\ Status(rankReq) = 404

-----------------------------------------------------------------------------
(* Properties of the seed script *)

RowsWith(table, Match(_)) == {i \in DOMAIN table : Match(table[i])}

\* C8: once a run of the seed has completed, the store holds exactly one profile
\* row and exactly one credentials row for each demo volunteer id and exactly one
\* event row for each demo event id, and the tables stay as the first completed
\* run left them, through every later run and at its end.
C8_SeedIdempotent ==
  seed.completed >= 1 =>
    /\ \A k \in DOMAIN demoVols :
         /\ Cardinality(RowsWith(userProfile, LAMBDA row : row.userId = demoVols[k].id)) = 1
         /\ Cardinality(RowsWith(userCredentials, LAMBDA row : row.userId = demoVols[k].id)) = 1
         /\ \A i \in DOMAIN userProfile :
              userProfile[i].userId = demoVols[k].id => userProfile[i] = ProfileRow(demoVols[k])
    /\ \A k \in DOMAIN demoEvents :
         /\ Cardinality(RowsWith(eventDetails, LAMBDA row : row.id = demoEvents[k].id)) = 1
         /\ \A i \in DOMAIN eventDetails :
              eventDetails[i].id = demoEvents[k].id => eventDetails[i] = EventRow(demoEvents[k])
    /\ Tables = seed.first

\* a second run has completed over a store that held stale and other rows before
C8_Witness ==
  /\ seed.completed = 2 /\ seed.pc = "idle"
  /\ \E i \in DOMAIN userCredentials : userCredentials[i].password = "secret"
  /\ Len(userProfile) = Len(demoVols) + 1
  /\ Len(eventDetails) = Len(demoEvents) + 1

-----------------------------------------------------------------------------
(* Properties of the event management page *)

\* a date "YYYY-MM-DD" that names a day
ValidDate(d) == Len(d) = 3 /\ d[2] \in 1..12 /\ d[3] \in 1..31

\* the form passes validation: name, description and location are not blank once
\* trimmed, the trimmed name has at most 100 characters, a skill is selected and a
\* valid date is set
FormPasses(f) ==
  /\ Trim(f.name) # <<>> /\ Trim(f.description) # <<>> /\ Trim(f.location) # <<>>
  /\ Len(Trim(f.name)) <= MaxNameLen
  /\ Len(f.requiredSkills) >= 1
  /\ ValidDate(f.eventDate)

\* C10: a create or update request leaves the page only from a form that passes
\* validation, and carries that form with its texts trimmed; a handleSave call on a
\* form that does not pass sets the error message and sends nothing, and leaves the
\* events list, mode and selectedId as they were.
C10_SaveOnlyWhenValid ==
  [][/\ (op.kind = "none" /\ op'.kind \in {"create", "update"})
          => (FormPasses(form) /\ op'.payload = Payload(form) /\ op'.st = "sent")
     /\ (handleSave /\ ~FormPasses(form))
          => /\ error' # NoError
             /\ op' = op /\ saving' = saving
             /\ events' = events /\ mode' = mode /\ selectedId' = selectedId]_vars

\* an update request is under way from a form that was refused before for its skills
C10_Witness ==
  /\ op.kind = "update" /\ op.st = "sent"
  /\ error = "Select at least one Required Skill."
  /\ FormPasses(form)

-----------------------------------------------------------------------------
(* Frame of the refused assign calls *)

\* the assign calls answered 400 or 404
Refused == {r \in Reqs : Status(assignReq[r]) \in {400, 404}}

\* C11: an assign call answered 400 or 404 has created no Assignment and no Notice
\* row and has published nothing: every row and every publish is another call's;
\* no step such a call takes (its start, its lookups, its check) changes a table
\* or the bus; no profile row is ever modified and every event row in the store is
\* a row as it was stored; a call answered 400 has made no store read.
C11_RefusedAssignChangesNothing ==
  /\ [](\A r \in Refused :
          LET q == assignReq[r]
          IN /\ q.assignment = 0 /\ q.notice = 0 /\ Len(q.res) = 1
             /\ Len(assignment) = Cardinality({x \in Reqs \ {r} : assignReq[x].assignment # 0})
             /\ Len(notice) = Cardinality({x \in Reqs \ {r} : assignReq[x].notice # 0})
             /\ Len(bus) = Cardinality(Succeeded \ {r})
             /\ userProfile = SeededProfiles /\ userCredentials = SeededCredentials
             /\ Range(eventDetails) \subseteq Range(SeededEvents)
             /\ Status(q) = 400 => (~q.vDone /\ ~q.eDone /\ q.v = Null /\ q.e = Null))
  /\ [][\A r \in Reqs :
          (assignReq'[r] # assignReq[r] /\ assignReq[r].pc \in {"idle", "lookup"})
            => UNCHANGED <<storeVars, bus>>]_vars

\* one call was answered 400 and another 404, while no row was created
C11_Witness ==
  \E r1, r2 \in Refused :
    /\ Status(assignReq[r1]) = 400 /\ Status(assignReq[r2]) = 404
    /\ assignReq[r2].vDone /\ assignReq[r2].eDone
    /\ assignment = <<>> /\ notice = <<>> /\ bus = <<>>

-----------------------------------------------------------------------------
(* Selection of the event management page *)

InList(id) == \E i \in DOMAIN events : events[i].id = id

\* C12: mode is "edit" exactly when selectedId is not null, and in edit mode
\* selectedId is the id of an event of the events list.
C12_EditModeSelectsListedEvent ==
  /\ mode = "edit" <=> selectedId # NullId
  /\ mode = "edit" => InList(selectedId)

====
